---- MODULE Spec2Model ----
(***************************************************************************)
(* A model of the CLIServer of src/src/index.ts: the tool handlers         *)
(* execute_command, get_command_history and ssh_execute, the command       *)
(* policy (validateCommand), the life of one spawned shell process (data,  *)
(* close, error, timeout) and the bounded command history.                 *)
(*                                                                         *)
(* Texts (JavaScript strings) are sequences of pieces; a piece names the   *)
(* fragment it is cut from and how many of its leading characters it       *)
(* holds.  The empty string is the empty sequence.                         *)
(***************************************************************************)
EXTENDS Integers, Sequences, FiniteSets, TLC

\* ------------------------------------------------------------------ bounds
\* Invocations of the tools that take part in one behaviour.
MaxCalls == 3
\* Invocations in the behaviours that try every request (SpecPolicy).
PolicyCalls == 2
\* Data events (stdout or stderr chunks) over one behaviour.
MaxChunks == 3
\* config.security.maxHistorySize of the small configuration.
SmallHistorySize == 2
\* config.security.maxCommandLength.
MaxCommandLength == 8
\* config.security.maxOutputSize, in characters.
MaxOutputSize == 1100
\* The lengths of the two chunks a process may write.
SmallChunkLen == 500
BigChunkLen == 600
\* The length of the output of a remote command that produces output.
RemoteOutputLen == 1500

\* --------------------------------------------------------- program constants
\* entry.output.slice(0, 1000)
PreviewLen == 1000
\* z.number()...optional().default(10)
DefaultLimit == 10

\* ------------------------------------------------------------------- texts
Piece(id, n) == [id |-> id, len |-> n]
Lit(id, n) == <<Piece(id, n)>>

RECURSIVE TextLen(_)
TextLen(t) == IF t = <<>> THEN 0 ELSE Head(t).len + TextLen(Tail(t))

\* String.prototype.slice(0, n) for n >= 0: the first n characters.
RECURSIVE SliceFront(_, _)
SliceFront(t, n) ==
  IF t = <<>> \/ n <= 0 THEN <<>>
  ELSE IF Head(t).len <= n
       THEN <<Head(t)>> \o SliceFront(Tail(t), n - Head(t).len)
       ELSE <<Piece(Head(t).id, n)>>

\* a || b on strings: the empty string is falsy.
OrElse(a, b) == IF a # <<>> THEN a ELSE b

\* The literals of the source, with their lengths.
NoOutputText     == Lit("Command completed successfully (no output)", 42)
SavedToText      == Lit("Output exceeded limit and was saved to:", 45)
WasTruncatedText == Lit("Output exceeded limit and was truncated.", 124)
WillBeSavedText  == Lit("Outputs will be saved to:", 27)
FailedCodeText   == Lit("Command failed with exit code", 31)
ErrorHeaderText  == Lit("Error output:", 14)
NewlineText      == Lit("newline", 1)
OutputHeaderText == Lit("Standard output:", 17)
NothingText      == Lit("No error message or output was provided", 39)
ExceededText     == Lit("Output exceeded limit.", 26)
FullSavedText    == Lit("Full output saved to:", 23)
OutTruncText     == Lit("... Output truncated due to size limit ...", 43)
ErrTruncText     == Lit("... Error output truncated due to size limit ...", 49)
ProcessErrorText == Lit("Shell process error:", 21)
TimeoutText      == Lit("Command execution timed out", 126)
SshErrorPrefix   == Lit("SSH error: ", 11)
PathText         == Lit("path", 40)

\* ---------------------------------------------------------- configuration
\* config.shells: the shell profiles, with the operators each one blocks.
Shells ==
  [powershell |-> [enabled |-> FALSE, blockedOperators |-> {"&", "|"}],
   cmd        |-> [enabled |-> TRUE,  blockedOperators |-> {"&"}],
   gitbash    |-> [enabled |-> TRUE,  blockedOperators |-> {"|"}]]

\* The shell enum without its filter on enabled.
EnabledShellsUnfiltered == DOMAIN Shells

\* Object.keys(this.config.shells).filter(shell => shells[shell].enabled)
EnabledShells == {s \in DOMAIN Shells : Shells[s].enabled}

\* config.security.blockedCommands, blockedArguments, allowedPaths.
BlockedCommands == {"format"}
BlockedArguments == {"--exec"}
AllowedPaths == {<<"/", "a">>}
\* process.cwd()
Cwd == <<"/", "a", "/", "w">>
\* config.ssh.connections
SshConnections == {"pi"}

\* The flags of config.security and config.ssh a behaviour may run under.
Configs ==
  [enableInjectionProtection : BOOLEAN,
   restrictWorkingDirectory  : BOOLEAN,
   logCommands               : BOOLEAN,
   enableOutputFiles         : BOOLEAN,
   hasOutputDirectory        : BOOLEAN,
   sshEnabled                : BOOLEAN,
   maxHistorySize            : {SmallHistorySize, DefaultLimit}]

\* ------------------------------------------------------------------- paths
\* A path is a sequence of tokens: the separator "/", the parent segment
\* ".." and letters; a segment is the run of letters between separators.
IsAbsolute(p) == p # <<>> /\ Head(p) = "/"

\* The segments of a path, empty ones skipped.
RECURSIVE SplitPath(_, _)
SplitPath(p, cur) ==
  IF p = <<>> THEN (IF cur = <<>> THEN <<>> ELSE <<cur>>)
  ELSE IF Head(p) = "/"
       THEN (IF cur = <<>> THEN <<>> ELSE <<cur>>) \o SplitPath(Tail(p), <<>>)
       ELSE SplitPath(Tail(p), Append(cur, Head(p)))

\* ".." removes the segment before it; at the root it is dropped.
RECURSIVE NormalizeSegments(_, _)
NormalizeSegments(segs, acc) ==
  IF segs = <<>> THEN acc
  ELSE IF Head(segs) = <<"..">>
       THEN NormalizeSegments(Tail(segs),
              IF acc = <<>> THEN acc ELSE SubSeq(acc, 1, Len(acc) - 1))
       ELSE NormalizeSegments(Tail(segs), Append(acc, Head(segs)))

RECURSIVE JoinPath(_)
JoinPath(segs) ==
  IF segs = <<>> THEN <<>> ELSE <<"/">> \o Head(segs) \o JoinPath(Tail(segs))

\* path.resolve(dir): an absolute, normalized path; a relative one is taken
\* from the current directory.
PathResolve(dir) ==
  LET full == IF IsAbsolute(dir) THEN dir ELSE Cwd \o <<"/">> \o dir
      segs == NormalizeSegments(SplitPath(full, <<>>), <<>>)
  IN IF segs = <<>> THEN <<"/">> ELSE JoinPath(segs)

\* String.prototype.startsWith
StartsWith(s, prefix) ==
  Len(prefix) <= Len(s) /\ SubSeq(s, 1, Len(prefix)) = prefix

\* The working directory taken as given, path.resolve left out.
ResolveWorkingDirUnresolved(dir) == IF dir # <<>> THEN dir ELSE Cwd

\* args.workingDir ? path.resolve(args.workingDir) : process.cwd()
ResolveWorkingDir(dir) == IF dir # <<>> THEN PathResolve(dir) ELSE Cwd

\* Array.from(this.allowedPaths).some(p => workingDir.startsWith(p))
IsAllowedPath(workingDir) ==
  \E allowedPath \in AllowedPaths : StartsWith(workingDir, allowedPath)

\* ---------------------------------------------------------------- commands
\* A command line, as far as the policy reads it: the executable token and
\* the argument tokens parseCommand yields, the operators that stand outside
\* quotes, and command.length.
Executables == {"dir", "FORMAT.EXE"}
ArgLists == {<<>>, <<"--exec">>}
OperatorSets == {{}, {"&"}}
Lengths == {3, MaxCommandLength + 1}
Commands ==
  [executable : Executables, args : ArgLists, ops : OperatorSets, len : Lengths]

\* The executable token lower-cased and without a known executable extension.
NormalizeExecutable(executable) ==
  CASE executable = "FORMAT.EXE" -> "format"
    [] executable = "format.exe" -> "format"
    [] executable = "FORMAT"     -> "format"
    [] OTHER                     -> executable

IsCommandBlocked(executable, blocked) == NormalizeExecutable(executable) \in blocked

IsArgumentBlocked(args, blocked) == \E i \in 1..Len(args) : args[i] \in blocked

\* validateShellOperators: fails when an operator the shell profile blocks
\* stands in the command.
HasBlockedOperator(command, shellConfig) ==
  command.ops \cap shellConfig.blockedOperators # {}

\* ------------------------------------------------------------------ errors
NoError == [code |-> "none", reason |-> "none"]
McpError(code, reason) == [code |-> code, reason |-> reason]

\* validateCommand without its blocked-command check.
ValidateCommandNoBlockedCheck(cfg, shell, command) ==
  IF cfg.enableInjectionProtection /\ HasBlockedOperator(command, Shells[shell])
  THEN McpError("InvalidRequest", "operator")
  ELSE IF IsArgumentBlocked(command.args, BlockedArguments)
  THEN McpError("InvalidRequest", "blocked_argument")
  ELSE IF command.len > MaxCommandLength
  THEN McpError("InvalidRequest", "length")
  ELSE NoError

\* validateCommand with the length check moved to the front.
ValidateCommandLengthFirst(cfg, shell, command) ==
  IF command.len > MaxCommandLength
  THEN McpError("InvalidRequest", "length")
  ELSE IF cfg.enableInjectionProtection /\ HasBlockedOperator(command, Shells[shell])
  THEN McpError("InvalidRequest", "operator")
  ELSE IF IsCommandBlocked(command.executable, BlockedCommands)
  THEN McpError("InvalidRequest", "blocked_command")
  ELSE IF IsArgumentBlocked(command.args, BlockedArguments)
  THEN McpError("InvalidRequest", "blocked_argument")
  ELSE NoError

\* validateCommand(shell, command): the error it throws, NoError when it returns.
ValidateCommand(cfg, shell, command) ==
  IF cfg.enableInjectionProtection /\ HasBlockedOperator(command, Shells[shell])
  THEN McpError("InvalidRequest", "operator")
  ELSE IF IsCommandBlocked(command.executable, BlockedCommands)
  THEN McpError("InvalidRequest", "blocked_command")
  ELSE IF IsArgumentBlocked(command.args, BlockedArguments)
  THEN McpError("InvalidRequest", "blocked_argument")
  ELSE IF command.len > MaxCommandLength
  THEN McpError("InvalidRequest", "length")
  ELSE NoError


\* ------------------------------------------------------------------- state
VARIABLES
  config,          \* this.config: fixed at construction
  commandHistory,  \* this.commandHistory
  recorded,        \* how many entries were ever pushed to commandHistory
  calls,           \* the invocations: calls[id] is the state of invocation id
  nextId,          \* the id the next invocation gets
  response,        \* what the latest handler run answered before returning
  spawnCount,      \* how many times spawn() was called
  lastSpawn,       \* the arguments of the latest spawn() call
  chunkCount,      \* how many data events were delivered
  files,           \* the output directory: files[id] is invocation id's file
  sshPool,         \* this.sshPool: the attempts and sessions of the pool
  proc             \* the server process: running, interrupted or exited

vars == <<config, commandHistory, recorded, calls, nextId, response,
          spawnCount, lastSpawn, chunkCount, files, sshPool, proc>>

CallIds == 1..MaxCalls

NoCommand == [executable |-> "", args |-> <<>>, ops |-> {}, len |-> 0]

\* The promise an invocation returns.
Pending == [state |-> "pending", error |-> NoError, text |-> <<>>, exitCode |-> 0]
Resolved(text, exitCode) ==
  [state |-> "resolved", error |-> NoError, text |-> text, exitCode |-> exitCode]
Rejected(err, text) ==
  [state |-> "rejected", error |-> err, text |-> text, exitCode |-> 0]

\* A promise whose latest resolve or reject replaces an earlier one.
SettleOverwriting(promise, outcome) == outcome

\* resolve(v) and reject(e) settle a pending promise and do nothing to a
\* settled one.
Settle(promise, outcome) == IF promise.state = "pending" THEN outcome ELSE promise

\* stdoutSeen and stderrSeen are the chunks the two streams have delivered to
\* their data handlers so far, in order.
NoCall ==
  [tool |-> "none", st |-> "none", command |-> NoCommand, connectionId |-> "",
   result |-> Pending, spawns |-> 0, timer |-> "unset", killed |-> FALSE,
   errored |-> FALSE,
   output |-> <<>>, error |-> <<>>, outputSize |-> 0, truncated |-> FALSE,
   outputFilePath |-> 0, stdoutSeen |-> <<>>, stderrSeen |-> <<>>]

\* An invocation whose handler ran to its end without suspending.
DoneCall(tool) == [NoCall EXCEPT !.tool = tool, !.st = "done"]

NoFile == [exists |-> FALSE, content |-> <<>>]
NoLimit == [given |-> FALSE, n |-> 0]
Limit(n) == [given |-> TRUE, n |-> n]

NoRequest ==
  [shell |-> "", command |-> NoCommand, workingDir |-> <<>>,
   connectionId |-> "", limit |-> NoLimit]
NoResponse ==
  [id |-> 0, tool |-> "none", request |-> NoRequest, error |-> NoError,
   text |-> <<>>, entries |-> <<>>]
NoSpawn == [id |-> 0, shell |-> "", dir |-> <<>>, cwd |-> <<>>]

\* A CommandHistoryEntry; seq is the rank of the push that recorded it.
Entry(command, output, exitCode, connectionId, seq) ==
  [command |-> command, output |-> output, exitCode |-> exitCode,
   connectionId |-> connectionId, seq |-> seq]

\* Array.prototype.slice(-n) for n >= 1: the last n elements.
LastN(h, n) == IF Len(h) > n THEN SubSeq(h, Len(h) - n + 1, Len(h)) ELSE h

\* if (history.length > maxHistorySize) history = history.slice(-maxHistorySize)
TrimHistory(h, cfg) ==
  IF Len(h) > cfg.maxHistorySize THEN LastN(h, cfg.maxHistorySize) ELSE h

\* ------------------------------------------------------- the session pool
\* The pool holds the connection attempts in flight and the sessions they
\* produced; each is named by its connection identifier and by the invocation
\* that started the attempt.
Attempt(connectionId, by) == [connectionId |-> connectionId, by |-> by]
NoPool == [pending |-> {}, sessions |-> {}, closing |-> {}]
HasSession(pool, connectionId) ==
  \E h \in pool.sessions : h.connectionId = connectionId
HasPending(pool, connectionId) ==
  \E a \in pool.pending : a.connectionId = connectionId

\* getConnection that starts an attempt of its own whenever no session
\* exists yet, whether or not one is already in flight.
GetConnectionNoCollapse(pool, connectionId, by) ==
  IF HasSession(pool, connectionId) THEN pool
  ELSE [pool EXCEPT !.pending = @ \cup {Attempt(connectionId, by)}]

\* getConnection(connectionId, config): the existing session, or the attempt
\* in flight, or else a new attempt.
GetConnection(pool, connectionId, by) ==
  IF HasSession(pool, connectionId) \/ HasPending(pool, connectionId) THEN pool
  ELSE [pool EXCEPT !.pending = @ \cup {Attempt(connectionId, by)}]

\* closeConnection(connectionId): the session of the identifier, if there is
\* one, is torn down and removed.
CloseConnection(pool, connectionId) ==
  [pool EXCEPT !.sessions = {h \in @ : h.connectionId # connectionId}]

\* closeAll(): every session leaves the pool and its close is started; done
\* are the sessions whose close completes before closeAll returns, the others
\* are still closing.
CloseAll(pool, done) ==
  [pool EXCEPT !.sessions = {}, !.closing = @ \cup (pool.sessions \ done)]

InitWith(configs) ==
  /\ config \in configs
  /\ commandHistory = <<>>
  /\ recorded = 0
  /\ calls = [id \in CallIds |-> NoCall]
  /\ nextId = 1
  /\ response = NoResponse
  /\ spawnCount = 0
  /\ lastSpawn = NoSpawn
  /\ chunkCount = 0
  /\ files = [id \in CallIds |-> NoFile]
  /\ sshPool = NoPool
  /\ proc = "running"

\* The handler answers (returns or throws) without suspending.
Respond(tool, request, err, text, entries) ==
  /\ response' = [id |-> nextId, tool |-> tool, request |-> request,
                  error |-> err, text |-> text, entries |-> entries]
  /\ calls' = [calls EXCEPT ![nextId] = DoneCall(tool)]
  /\ nextId' = nextId + 1

\* ---------------------------------------------------------- execute_command
ShellInputs == DOMAIN Shells \cup {"zsh"}
WorkingDirInputs ==
  {<<>>, <<"/", "a", "b">>, <<"/", "s">>, <<"/", "a", "/", "..", "/", "s">>, <<"x">>}

ExecuteRequest(shell, command, dir) ==
  [NoRequest EXCEPT !.shell = shell, !.command = command, !.workingDir = dir]

\* The handler of execute_command up to the promise it returns: the argument
\* schema, validateCommand, the working directory check and spawn().
ExecuteCommand(shell, command, dir) ==
  LET request == ExecuteRequest(shell, command, dir)
      workingDir == ResolveWorkingDir(dir)
      Reject(err) ==
        /\ Respond("execute_command", request, err, <<>>, <<>>)
        /\ UNCHANGED <<config, proc, commandHistory, recorded, spawnCount, lastSpawn,
                       chunkCount, files, sshPool>>
  IN /\ nextId <= MaxCalls
     /\ IF shell \notin EnabledShells
        THEN Reject(McpError("InvalidParams", "shell"))
        ELSE IF ValidateCommand(config, shell, command) # NoError
        THEN Reject(ValidateCommand(config, shell, command))
        ELSE IF config.restrictWorkingDirectory /\ ~IsAllowedPath(workingDir)
        THEN Reject(McpError("InvalidRequest", "working_directory"))
        ELSE /\ spawnCount' = spawnCount + 1
             /\ lastSpawn' = [id |-> nextId, shell |-> shell, dir |-> dir,
                               cwd |-> workingDir]
             /\ response' = NoResponse
             /\ nextId' = nextId + 1
             /\ \/ \* spawn() throws: the promise is rejected at once
                   calls' = [calls EXCEPT ![nextId] =
                     [NoCall EXCEPT !.tool = "execute_command", !.st = "done",
                        !.command = command, !.spawns = 1,
                        !.result = Rejected(McpError("InternalError", "spawn_failed"), <<>>)]]
                \/ \* the process runs: handlers attached, timer armed
                   calls' = [calls EXCEPT ![nextId] =
                     [NoCall EXCEPT !.tool = "execute_command", !.st = "running",
                        !.command = command, !.spawns = 1, !.timer = "armed"]]
             /\ UNCHANGED <<config, proc, commandHistory, recorded, chunkCount, files, sshPool>>


\* ------------------------------------------------------- the shell process
Chunks == {Piece("A", SmallChunkLen), Piece("B", BigChunkLen)}

\* saveToFile(content): the file is written only with an output directory.
SaveToFile(fs, id, content, cfg) ==
  IF cfg.hasOutputDirectory
  THEN [fs EXCEPT ![id] = [exists |-> TRUE, content |-> content]]
  ELSE fs

\* fs.appendFileSync(path, chunk): creates the file when it is missing.
AppendFile(fs, path, chunk) ==
  [fs EXCEPT ![path] = [exists |-> TRUE, content |-> fs[path].content \o <<chunk>>]]

\* The stdout handler with the size test made on the counter alone, before
\* the chunk is added to it.
StdoutCallTestingCounterOnly(c, id, chunk, cfg) ==
  IF c.outputSize <= MaxOutputSize
  THEN [c EXCEPT !.output = c.output \o <<chunk>>,
                 !.outputSize = c.outputSize + chunk.len]
  ELSE IF cfg.enableOutputFiles
  THEN IF ~c.truncated
       THEN [c EXCEPT !.output = ExceededText \o
                         (IF cfg.hasOutputDirectory THEN FullSavedText \o PathText
                          ELSE <<>>),
                      !.outputFilePath = IF cfg.hasOutputDirectory THEN id ELSE 0,
                      !.truncated = TRUE]
       ELSE c
  ELSE IF ~c.truncated
  THEN [c EXCEPT !.output = c.output \o OutTruncText, !.truncated = TRUE]
  ELSE c

\* shellProcess.stdout.on('data', ...): the invocation's state after the chunk.
StdoutCall(c, id, chunk, cfg) ==
  IF c.outputSize + chunk.len <= MaxOutputSize
  THEN [c EXCEPT !.output = c.output \o <<chunk>>,
                 !.outputSize = c.outputSize + chunk.len]
  ELSE IF cfg.enableOutputFiles
  THEN IF ~c.truncated
       THEN [c EXCEPT !.output = ExceededText \o
                         (IF cfg.hasOutputDirectory THEN FullSavedText \o PathText
                          ELSE <<>>),
                      !.outputFilePath = IF cfg.hasOutputDirectory THEN id ELSE 0,
                      !.truncated = TRUE]
       ELSE c
  ELSE IF ~c.truncated
  THEN [c EXCEPT !.output = c.output \o OutTruncText, !.truncated = TRUE]
  ELSE c

\* The output directory after the same chunk.
StdoutFiles(fs, c, id, chunk, cfg) ==
  IF c.outputSize + chunk.len <= MaxOutputSize THEN fs
  ELSE IF cfg.enableOutputFiles
  THEN IF ~c.truncated
       THEN SaveToFile(fs, id, c.output \o <<chunk>>, cfg)
       ELSE IF c.outputFilePath # 0 THEN AppendFile(fs, c.outputFilePath, chunk)
            ELSE fs
  ELSE fs

\* shellProcess.stderr.on('data', ...)
StderrCall(c, chunk) ==
  IF c.outputSize + chunk.len <= MaxOutputSize
  THEN [c EXCEPT !.error = c.error \o <<chunk>>,
                 !.outputSize = c.outputSize + chunk.len]
  ELSE IF ~c.truncated
  THEN [c EXCEPT !.error = c.error \o ErrTruncText, !.truncated = TRUE]
  ELSE c

StdoutData(id, chunk) ==
  /\ calls[id].st = "running"
  /\ chunkCount < MaxChunks
  /\ chunkCount' = chunkCount + 1
  /\ calls' = [calls EXCEPT ![id] =
       [StdoutCall(calls[id], id, chunk, config)
          EXCEPT !.stdoutSeen = calls[id].stdoutSeen \o <<chunk>>]]
  /\ files' = StdoutFiles(files, calls[id], id, chunk, config)
  /\ UNCHANGED <<config, proc, commandHistory, recorded, nextId, response,
                 spawnCount, lastSpawn, sshPool>>

StderrData(id, chunk) ==
  /\ calls[id].st = "running"
  /\ chunkCount < MaxChunks
  /\ chunkCount' = chunkCount + 1
  /\ calls' = [calls EXCEPT ![id] =
       [StderrCall(calls[id], chunk)
          EXCEPT !.stderrSeen = calls[id].stderrSeen \o <<chunk>>]]
  /\ UNCHANGED <<config, proc, commandHistory, recorded, nextId, response,
                 spawnCount, lastSpawn, files, sshPool>>

\* The close event's (code, signal): code is null when a signal ended the
\* process.
CloseEvents ==
  {[signalled |-> FALSE, code |-> 0], [signalled |-> FALSE, code |-> 1],
   [signalled |-> TRUE, code |-> 0]}
IsCodeZero(ev) == ~ev.signalled /\ ev.code = 0
\* code ?? -1
ExitCodeOf(ev) == IF ev.signalled THEN -1 ELSE ev.code

\* The note the close handler adds when truncated is set.
TruncationNote(c, cfg) ==
  IF ~c.truncated THEN <<>>
  ELSE IF c.outputFilePath # 0 THEN SavedToText \o PathText
  ELSE WasTruncatedText \o WillBeSavedText \o PathText

\* resultMessage of the close handler.
ResultMessage(c, cfg, ev) ==
  IF IsCodeZero(ev)
  THEN OrElse(c.output, NoOutputText) \o TruncationNote(c, cfg)
  ELSE FailedCodeText
       \o (IF c.error # <<>> THEN ErrorHeaderText \o c.error \o NewlineText ELSE <<>>)
       \o (IF c.output # <<>> THEN OutputHeaderText \o c.output ELSE <<>>)
       \o (IF c.error = <<>> /\ c.output = <<>> THEN NothingText ELSE <<>>)
       \o TruncationNote(c, cfg)

\* The push of the close handler and of a successful ssh_execute: with the trim.
PushTrimmed(h, e, cfg) ==
  IF cfg.logCommands THEN TrimHistory(Append(h, e), cfg) ELSE h

\* A push that does not look at logCommands.
PushUnconditional(h, e, cfg) == Append(h, e)

\* The push of the error, timeout and ssh catch handlers: no trim follows.
PushUntrimmed(h, e, cfg) == IF cfg.logCommands THEN Append(h, e) ELSE h

Recorded(n, cfg) == IF cfg.logCommands THEN n + 1 ELSE n

\* The files the retention sweep may find older than the cutoff: those of
\* invocations whose process closed before.
SweepableFiles == {f \in CallIds : files[f].exists /\ calls[f].st = "closed"}

\* The close event without its second listener: the timer stays armed.
CloseKeepingTimer(id, ev) ==
  LET c == calls[id]
      resultMessage == ResultMessage(c, config, ev)
  IN /\ c.st = "running"
     /\ commandHistory' =
          PushTrimmed(commandHistory,
            Entry(c.command, resultMessage, ExitCodeOf(ev), "", recorded + 1), config)
     /\ recorded' = Recorded(recorded, config)
     /\ IF config.enableOutputFiles /\ config.hasOutputDirectory
        THEN \E old \in SUBSET SweepableFiles :
               files' = [f \in CallIds |-> IF f \in old THEN NoFile ELSE files[f]]
        ELSE files' = files
     /\ calls' = [calls EXCEPT ![id] =
          [c EXCEPT !.st = "closed",
                    !.result = Settle(c.result, Resolved(resultMessage, ExitCodeOf(ev)))]]
     /\ UNCHANGED <<config, proc, nextId, response, spawnCount, lastSpawn, chunkCount, sshPool>>

\* shellProcess.on('close', ...): both listeners, the result and
\* clearTimeout(timeout).
Close(id, ev) ==
  LET c == calls[id]
      resultMessage == ResultMessage(c, config, ev)
  IN /\ c.st = "running"
     /\ commandHistory' =
          PushTrimmed(commandHistory,
            Entry(c.command, resultMessage, ExitCodeOf(ev), "", recorded + 1), config)
     /\ recorded' = Recorded(recorded, config)
     /\ IF config.enableOutputFiles /\ config.hasOutputDirectory
        THEN \E old \in SUBSET SweepableFiles :
               files' = [f \in CallIds |-> IF f \in old THEN NoFile ELSE files[f]]
        ELSE files' = files
     /\ calls' = [calls EXCEPT ![id] =
          [c EXCEPT !.st = "closed",
                    !.result = Settle(c.result, Resolved(resultMessage, ExitCodeOf(ev))),
                    !.timer = IF c.timer = "armed" THEN "cleared" ELSE c.timer]]
     /\ UNCHANGED <<config, proc, nextId, response, spawnCount, lastSpawn, chunkCount, sshPool>>

\* shellProcess.on('error', ...)
ProcessError(id) ==
  LET c == calls[id]
  IN /\ c.st = "running"
     /\ ~c.errored
     /\ commandHistory' =
          PushUntrimmed(commandHistory,
            Entry(c.command, ProcessErrorText, -1, "", recorded + 1), config)
     /\ recorded' = Recorded(recorded, config)
     /\ calls' = [calls EXCEPT ![id] =
          [c EXCEPT !.errored = TRUE,
                    !.result = Settle(c.result,
                       Rejected(McpError("InternalError", "process_error"), ProcessErrorText))]]
     /\ UNCHANGED <<config, proc, nextId, response, spawnCount, lastSpawn, chunkCount,
                    files, sshPool>>

\* The timeout callback without shellProcess.kill(): it only reports.
TimeoutWithoutKill(id) ==
  LET c == calls[id]
  IN /\ c.timer = "armed"
     /\ commandHistory' =
          PushUntrimmed(commandHistory,
            Entry(c.command, TimeoutText, -1, "", recorded + 1), config)
     /\ recorded' = Recorded(recorded, config)
     /\ calls' = [calls EXCEPT ![id] =
          [c EXCEPT !.timer = "fired",
                    !.result = Settle(c.result,
                       Rejected(McpError("InternalError", "timeout"), TimeoutText))]]
     /\ UNCHANGED <<config, proc, nextId, response, spawnCount, lastSpawn, chunkCount,
                    files, sshPool>>

\* The callback of setTimeout(..., commandTimeout * 1000)
Timeout(id) ==
  LET c == calls[id]
  IN /\ c.timer = "armed"
     /\ commandHistory' =
          PushUntrimmed(commandHistory,
            Entry(c.command, TimeoutText, -1, "", recorded + 1), config)
     /\ recorded' = Recorded(recorded, config)
     /\ calls' = [calls EXCEPT ![id] =
          [c EXCEPT !.timer = "fired", !.killed = TRUE,
                    !.result = Settle(c.result,
                       Rejected(McpError("InternalError", "timeout"), TimeoutText))]]
     /\ UNCHANGED <<config, proc, nextId, response, spawnCount, lastSpawn, chunkCount,
                    files, sshPool>>


\* ------------------------------------------------------ get_command_history
HistoryDisabledText == Lit("Command history is disabled in configuration.", 125)

LimitInputs ==
  {NoLimit, Limit(0), Limit(1), Limit(SmallHistorySize), Limit(SmallHistorySize + 1)}

HistoryRequest(limit) == [NoRequest EXCEPT !.limit = limit]

\* z.number().min(1).max(maxHistorySize).optional().default(10): the default
\* stands in for a missing limit and passes through the same range check.
ParsedLimit(limit) == IF limit.given THEN limit.n ELSE DefaultLimit
LimitInRange(n, cfg) == 1 <= n /\ n <= cfg.maxHistorySize

\* output: entry.output.slice(0, 1000)
PreviewEntry(e) == [e EXCEPT !.output = SliceFront(e.output, PreviewLen)]

\* The view taken from the front of the history: slice(0, limit).
HistoryViewFromFront(h, n) ==
  LET first == IF Len(h) > n THEN SubSeq(h, 1, n) ELSE h
  IN [i \in 1..Len(first) |-> PreviewEntry(first[i])]

\* this.commandHistory.slice(-args.limit).map(...)
HistoryView(h, n) ==
  LET last == LastN(h, n) IN [i \in 1..Len(last) |-> PreviewEntry(last[i])]

GetCommandHistory(limit) ==
  LET request == HistoryRequest(limit)
      n == ParsedLimit(limit)
  IN /\ nextId <= MaxCalls
     /\ IF ~config.logCommands
        THEN Respond("get_command_history", request, NoError, HistoryDisabledText, <<>>)
        ELSE IF ~LimitInRange(n, config)
        THEN Respond("get_command_history", request,
                     McpError("InvalidParams", "limit"), <<>>, <<>>)
        ELSE Respond("get_command_history", request, NoError, <<>>,
                     HistoryView(commandHistory, n))
     /\ UNCHANGED <<config, proc, commandHistory, recorded, spawnCount, lastSpawn,
                    chunkCount, files, sshPool>>

\* -------------------------------------------------------------- ssh_execute
ConnectionInputs == SshConnections \cup {"nope"}
RemoteOutputs == {<<>>, Lit("remote", RemoteOutputLen)}
RemoteExitCodes == {0, 1}
RemoteFailureText == Lit("remote failure", 20)
ValidationFailureText == Lit("validation message", 30)

SshRequest(connectionId, command) ==
  [NoRequest EXCEPT !.connectionId = connectionId, !.command = command]

\* The entry of the catch block with the bare message as its output.
SshCatchEntryUnprefixed(command, connectionId, message, seq) ==
  Entry(command, message, -1, connectionId, seq)

\* The catch block of ssh_execute: the history push and the error thrown.
SshCatchEntry(command, connectionId, message, seq) ==
  Entry(command, SshErrorPrefix \o message, -1, connectionId, seq)
SshCatchError == McpError("InternalError", "ssh_error")

\* The checks of ssh_execute before its try block, with the lookup of the
\* connection left out.
SshPrecheckEnabledOnly(cfg, connectionId) ==
  IF ~cfg.sshEnabled THEN McpError("InvalidRequest", "ssh_disabled")
  ELSE NoError

\* The checks of ssh_execute before its try block: remote execution is
\* enabled and the connection is configured.
SshPrecheck(cfg, connectionId) ==
  IF ~cfg.sshEnabled THEN McpError("InvalidRequest", "ssh_disabled")
  ELSE IF connectionId \notin SshConnections
  THEN McpError("InvalidRequest", "unknown_connection")
  ELSE NoError

\* ssh_execute with the session requested before the command is validated:
\* a rejected command has already started or joined a connection attempt.
SshExecuteConnectingFirst(connectionId, command) ==
  LET request == SshRequest(connectionId, command)
  IN /\ nextId <= MaxCalls
     /\ IF SshPrecheck(config, connectionId) # NoError
        THEN /\ Respond("ssh_execute", request,
                        SshPrecheck(config, connectionId), <<>>, <<>>)
             /\ UNCHANGED <<commandHistory, recorded, sshPool>>
        ELSE IF ValidateCommand(config, "cmd", command) # NoError
        THEN /\ sshPool' = GetConnection(sshPool, connectionId, nextId)
             /\ commandHistory' =
                  PushUntrimmed(commandHistory,
                    SshCatchEntry(command, connectionId, ValidationFailureText,
                                  recorded + 1), config)
             /\ recorded' = Recorded(recorded, config)
             /\ Respond("ssh_execute", request, SshCatchError,
                        SshErrorPrefix \o ValidationFailureText, <<>>)
        ELSE /\ sshPool' = GetConnection(sshPool, connectionId, nextId)
             /\ calls' = [calls EXCEPT ![nextId] =
                  [NoCall EXCEPT !.tool = "ssh_execute", !.command = command,
                     !.connectionId = connectionId,
                     !.st = IF HasSession(sshPool, connectionId)
                            THEN "executing" ELSE "connecting"]]
             /\ response' = NoResponse
             /\ nextId' = nextId + 1
             /\ UNCHANGED <<commandHistory, recorded>>
     /\ UNCHANGED <<config, proc, spawnCount, lastSpawn, chunkCount, files>>

\* The handler of ssh_execute up to its first await (getConnection).
SshExecute(connectionId, command) ==
  LET request == SshRequest(connectionId, command)
  IN /\ nextId <= MaxCalls
     /\ IF SshPrecheck(config, connectionId) # NoError
        THEN /\ Respond("ssh_execute", request,
                        SshPrecheck(config, connectionId), <<>>, <<>>)
             /\ UNCHANGED <<commandHistory, recorded, sshPool>>
        ELSE IF ValidateCommand(config, "cmd", command) # NoError
        THEN \* thrown inside the try block: the catch block handles it
             /\ commandHistory' =
                  PushUntrimmed(commandHistory,
                    SshCatchEntry(command, connectionId, ValidationFailureText,
                                  recorded + 1), config)
             /\ recorded' = Recorded(recorded, config)
             /\ Respond("ssh_execute", request, SshCatchError,
                        SshErrorPrefix \o ValidationFailureText, <<>>)
             /\ UNCHANGED sshPool
        ELSE \* await this.sshPool.getConnection(...)
             /\ sshPool' = GetConnection(sshPool, connectionId, nextId)
             /\ calls' = [calls EXCEPT ![nextId] =
                  [NoCall EXCEPT !.tool = "ssh_execute", !.command = command,
                     !.connectionId = connectionId,
                     !.st = IF HasSession(sshPool, connectionId)
                            THEN "executing" ELSE "connecting"]]
             /\ response' = NoResponse
             /\ nextId' = nextId + 1
             /\ UNCHANGED <<commandHistory, recorded>>
     /\ UNCHANGED <<config, proc, spawnCount, lastSpawn, chunkCount, files>>

\* A connection attempt ends: every invocation waiting for the connection
\* resumes, with the session or with the failure.
SshConnectDone(attempt, ok) ==
  /\ attempt \in sshPool.pending
  /\ sshPool' = [sshPool EXCEPT
                    !.pending = @ \ {attempt},
                    !.sessions = IF ok THEN @ \cup {attempt} ELSE @]
  /\ calls' = [id \in CallIds |->
       IF calls[id].st = "connecting" /\ calls[id].connectionId = attempt.connectionId
       THEN [calls[id] EXCEPT !.st = IF ok THEN "executing" ELSE "failing"]
       ELSE calls[id]]
  /\ UNCHANGED <<config, proc, commandHistory, recorded, nextId, response, spawnCount,
                 lastSpawn, chunkCount, files>>

\* connection.executeCommand(command) returned: the rest of the try block.
SshCommandDone(id, output, exitCode) ==
  LET c == calls[id]
  IN /\ c.st = "executing"
     /\ commandHistory' =
          PushTrimmed(commandHistory,
            Entry(c.command, output, exitCode, c.connectionId, recorded + 1), config)
     /\ recorded' = Recorded(recorded, config)
     /\ calls' = [calls EXCEPT ![id] =
          [c EXCEPT !.st = "finished",
                    !.result = Settle(c.result,
                       Resolved(OrElse(output, NoOutputText), exitCode))]]
     /\ UNCHANGED <<config, proc, nextId, response, spawnCount, lastSpawn, chunkCount,
                    files, sshPool>>

\* getConnection or executeCommand threw: the catch block.
SshCommandFailed(id) ==
  LET c == calls[id]
  IN /\ c.st \in {"executing", "failing"}
     /\ commandHistory' =
          PushUntrimmed(commandHistory,
            SshCatchEntry(c.command, c.connectionId, RemoteFailureText, recorded + 1),
            config)
     /\ recorded' = Recorded(recorded, config)
     /\ calls' = [calls EXCEPT ![id] =
          [c EXCEPT !.st = "finished",
                    !.result = Settle(c.result,
                       Rejected(SshCatchError, SshErrorPrefix \o RemoteFailureText))]]
     /\ UNCHANGED <<config, proc, nextId, response, spawnCount, lastSpawn, chunkCount,
                    files, sshPool>>

\* ----------------------------------------------------------- ssh_disconnect
DisconnectedText == Lit("Disconnected from", 20)

DisconnectRequest(connectionId) == [NoRequest EXCEPT !.connectionId = connectionId]

\* ssh_disconnect that refuses an identifier the configuration does not name.
SshDisconnectConfiguredOnly(connectionId) ==
  LET request == DisconnectRequest(connectionId)
  IN /\ nextId <= MaxCalls
     /\ IF ~config.sshEnabled
        THEN /\ Respond("ssh_disconnect", request,
                        McpError("InvalidRequest", "ssh_disabled"), <<>>, <<>>)
             /\ sshPool' = sshPool
        ELSE IF connectionId \notin SshConnections
        THEN /\ Respond("ssh_disconnect", request,
                        McpError("InvalidRequest", "unknown_connection"), <<>>, <<>>)
             /\ sshPool' = sshPool
        ELSE /\ sshPool' = CloseConnection(sshPool, connectionId)
             /\ Respond("ssh_disconnect", request, NoError, DisconnectedText, <<>>)
     /\ UNCHANGED <<config, proc, commandHistory, recorded, spawnCount, lastSpawn,
                    chunkCount, files>>

\* The handler of ssh_disconnect: closeConnection, then the confirmation.
SshDisconnect(connectionId) ==
  LET request == DisconnectRequest(connectionId)
  IN /\ nextId <= MaxCalls
     /\ IF ~config.sshEnabled
        THEN /\ Respond("ssh_disconnect", request,
                        McpError("InvalidRequest", "ssh_disabled"), <<>>, <<>>)
             /\ sshPool' = sshPool
        ELSE /\ sshPool' = CloseConnection(sshPool, connectionId)
             /\ Respond("ssh_disconnect", request, NoError, DisconnectedText, <<>>)
     /\ UNCHANGED <<config, proc, commandHistory, recorded, spawnCount, lastSpawn,
                    chunkCount, files>>

\* ------------------------------------------------------------------ SIGINT
\* The SIGINT listener up to its await: cleanup() calls closeAll() and
\* returns without waiting for it.
Sigint ==
  /\ proc = "running"
  /\ proc' = "interrupted"
  /\ \E done \in SUBSET sshPool.sessions : sshPool' = CloseAll(sshPool, done)
  /\ UNCHANGED <<config, commandHistory, recorded, calls, nextId, response,
                 spawnCount, lastSpawn, chunkCount, files>>

\* The listener's exit held back until no session is closing any more.
ExitAfterCloses ==
  /\ proc = "interrupted"
  /\ sshPool.closing = {}
  /\ proc' = "exited"
  /\ UNCHANGED <<config, commandHistory, recorded, calls, nextId, response,
                 spawnCount, lastSpawn, chunkCount, files, sshPool>>

\* The rest of the SIGINT listener: process.exit(0).
Exit ==
  /\ proc = "interrupted"
  /\ proc' = "exited"
  /\ UNCHANGED <<config, commandHistory, recorded, calls, nextId, response,
                 spawnCount, lastSpawn, chunkCount, files, sshPool>>

\* ---------------------------------------------------------- specifications
\* The server's steps: a tool call arrives, or an event of a spawned process,
\* a timer or a remote session is delivered.
ProcessEvent ==
  \/ \E id \in CallIds, ev \in CloseEvents : Close(id, ev)
  \/ \E id \in CallIds : ProcessError(id)
  \/ \E id \in CallIds : Timeout(id)

DataEvent ==
  \/ \E id \in CallIds, chunk \in Chunks : StdoutData(id, chunk)
  \/ \E id \in CallIds, chunk \in Chunks : StderrData(id, chunk)

SshEvent ==
  \/ \E attempt \in sshPool.pending, ok \in BOOLEAN :
       SshConnectDone(attempt, ok)
  \/ \E id \in CallIds, output \in RemoteOutputs, exitCode \in RemoteExitCodes :
       SshCommandDone(id, output, exitCode)
  \/ \E id \in CallIds : SshCommandFailed(id)

\* A command that passes every check.
PlainCommand == [executable |-> "dir", args |-> <<>>, ops |-> {}, len |-> 3]

\* SpecPolicy: every request (shell, command, working directory, connection)
\* under every setting of the policy flags; processes write no output and
\* close before their timeout.
PolicyConfigs ==
  {c \in Configs : c.enableOutputFiles /\ c.hasOutputDirectory
                   /\ c.maxHistorySize = SmallHistorySize}
InitPolicy == InitWith(PolicyConfigs)
NextPolicy ==
  \/ /\ nextId <= PolicyCalls
     /\ \E shell \in ShellInputs, command \in Commands, dir \in WorkingDirInputs :
          ExecuteCommand(shell, command, dir)
  \/ /\ nextId <= PolicyCalls
     /\ \E connectionId \in ConnectionInputs, command \in Commands :
          SshExecute(connectionId, command)
  \/ \E id \in CallIds, ev \in CloseEvents : Close(id, ev)
  \/ SshEvent
SpecPolicy == InitPolicy /\ [][NextPolicy]_vars

\* SpecHistory: up to MaxCalls local and remote executions, interleaved, with
\* reads of the history; logging on or off and both history sizes.
HistoryConfigs ==
  {c \in Configs : c.enableInjectionProtection /\ c.restrictWorkingDirectory
                   /\ c.enableOutputFiles /\ c.hasOutputDirectory /\ c.sshEnabled}
InitHistory == InitWith(HistoryConfigs)
NextHistory ==
  \/ ExecuteCommand("cmd", PlainCommand, <<>>)
  \/ SshExecute("pi", PlainCommand)
  \/ \E limit \in LimitInputs : GetCommandHistory(limit)
  \/ ProcessEvent
  \/ SshEvent
SpecHistory == InitHistory /\ [][NextHistory]_vars

\* SpecExec: one local execution with its output, under every setting of the
\* output and logging flags.
ExecConfigs ==
  {c \in Configs : c.enableInjectionProtection /\ c.restrictWorkingDirectory
                   /\ c.sshEnabled /\ c.maxHistorySize = SmallHistorySize}
InitExec == InitWith(ExecConfigs)
NextExec ==
  \/ /\ nextId = 1
     /\ ExecuteCommand("cmd", PlainCommand, <<>>)
  \/ DataEvent
  \/ ProcessEvent
SpecExec == InitExec /\ [][NextExec]_vars

\* SpecExecFair: SpecExec with the scheduling the execution relies on: an
\* armed timer fires once its delay has elapsed, and a process that was sent
\* the kill signal ends and has its close event delivered.
TimerFires == \E id \in CallIds : Timeout(id)
KilledProcessCloses ==
  \E id \in CallIds, ev \in CloseEvents : calls[id].killed /\ Close(id, ev)
SpecExecFair ==
  SpecExec /\ WF_vars(TimerFires) /\ WF_vars(KilledProcessCloses)

\* SpecSsh: up to MaxCalls remote executions and disconnections, interleaved
\* with the connection attempts and remote commands they wait for; remote
\* execution and logging on or off.
SshConfigs ==
  {c \in Configs : c.enableInjectionProtection /\ c.restrictWorkingDirectory
                   /\ c.enableOutputFiles /\ c.hasOutputDirectory
                   /\ c.maxHistorySize = SmallHistorySize}
\* A command that passes every check and one whose executable is blocked.
SshCommands == {c \in Commands : c.args = <<>> /\ c.ops = {} /\ c.len <= MaxCommandLength}
InitSsh == InitWith(SshConfigs)
NextSsh ==
  \/ \E connectionId \in ConnectionInputs, command \in SshCommands :
       SshExecute(connectionId, command)
  \/ \E connectionId \in ConnectionInputs : SshDisconnect(connectionId)
  \/ SshEvent
SpecSsh == InitSsh /\ [][NextSsh]_vars

\* SpecShutdown: remote executions with their sessions, interrupted at any
\* moment by SIGINT. The continuation of the listener after its await is a
\* microtask: it runs, and no other event is delivered before it.
ShutdownConfigs == {c \in SshConfigs : c.sshEnabled}
InitShutdown == InitWith(ShutdownConfigs)
NextShutdown ==
  \/ /\ proc = "running"
     /\ \/ SshExecute("pi", PlainCommand)
        \/ SshEvent
  \/ Sigint
  \/ Exit
SpecShutdown == InitShutdown /\ [][NextShutdown]_vars /\ WF_vars(Exit)

\* Every step of the server.
Init == InitWith(Configs)
Next ==
  \/ /\ proc = "running"
     /\ \/ \E shell \in ShellInputs, command \in Commands, dir \in WorkingDirInputs :
             ExecuteCommand(shell, command, dir)
        \/ \E connectionId \in ConnectionInputs, command \in Commands :
             SshExecute(connectionId, command)
        \/ \E connectionId \in ConnectionInputs : SshDisconnect(connectionId)
        \/ \E limit \in LimitInputs : GetCommandHistory(limit)
        \/ DataEvent
        \/ ProcessEvent
        \/ SshEvent
  \/ Sigint
  \/ Exit
Spec == Init /\ [][Next]_vars

\* ==================================================================== claims
\* This step ran the handler of `tool` as invocation nextId.
Invoked(tool) == nextId' = nextId + 1 /\ calls'[nextId].tool = tool
\* ... and the handler answered before returning.
Answered(tool) == Invoked(tool) /\ response'.id = nextId

\* What the policy says of a command, check by check.
OperatorViolation(cfg, shell, command) ==
  cfg.enableInjectionProtection
  /\ \E op \in command.ops : op \in Shells[shell].blockedOperators
ExecutableViolation(command) ==
  IsCommandBlocked(command.executable, BlockedCommands)
ArgumentViolation(command) == IsArgumentBlocked(command.args, BlockedArguments)
LengthViolation(command) == command.len > MaxCommandLength
CommandViolation(cfg, shell, command) ==
  \/ OperatorViolation(cfg, shell, command)
  \/ ExecutableViolation(command)
  \/ ArgumentViolation(command)
  \/ LengthViolation(command)

\* path has one of the allowed paths as a prefix, token by token.
HasAllowedPrefix(path) ==
  \E a \in AllowedPaths :
    Len(a) <= Len(path) /\ \A i \in 1..Len(a) : path[i] = a[i]
DirectoryViolation(cfg, dir) ==
  cfg.restrictWorkingDirectory /\ ~HasAllowedPrefix(ResolveWorkingDir(dir))

\* No process, no session, no history entry.
NoSideEffects ==
  /\ spawnCount' = spawnCount
  /\ lastSpawn' = lastSpawn
  /\ sshPool' = sshPool
  /\ commandHistory' = commandHistory
  /\ recorded' = recorded
  /\ files' = files
  /\ \A id \in CallIds : id # nextId => calls'[id] = calls[id]

\* C1 (as claimed): a call of execute_command or ssh_execute that violates
\* the policy (operator, executable, argument, length, working directory) is
\* answered with an invalid-request error and has no side effect: no spawn,
\* no session requested, the history unchanged.
C1_PolicyViolationsFailClosed ==
  [][ /\ ( /\ Answered("execute_command")
           /\ response'.request.shell \in EnabledShells
           /\ \/ CommandViolation(config, response'.request.shell,
                                  response'.request.command)
              \/ DirectoryViolation(config, response'.request.workingDir) )
         => (response'.error.code = "InvalidRequest" /\ NoSideEffects)
      /\ ( /\ Answered("ssh_execute")
           /\ config.sshEnabled
           /\ response'.request.connectionId \in SshConnections
           /\ CommandViolation(config, "cmd", response'.request.command) )
         => (response'.error.code = "InvalidRequest" /\ NoSideEffects)
    ]_vars

\* The command and the shell of the execute_command invocation of this step.
InvokedCommand ==
  IF response'.id = nextId THEN response'.request.command ELSE calls'[nextId].command
InvokedShell ==
  IF response'.id = nextId THEN response'.request.shell ELSE lastSpawn'.shell

\* C2: an execute_command call whose executable the blocked-executable check
\* reports blocked (the shell is enabled and no operator check fails before
\* it) is answered with the invalid-request error of that check, and spawn
\* is not called for the invocation.
C2_BlockedExecutableNeverSpawns ==
  [][ ( /\ Invoked("execute_command")
        /\ InvokedShell \in EnabledShells
        /\ ~OperatorViolation(config, InvokedShell, InvokedCommand)
        /\ ExecutableViolation(InvokedCommand) )
      => /\ response'.id = nextId
         /\ response'.error = McpError("InvalidRequest", "blocked_command")
         /\ calls'[nextId].spawns = 0
         /\ spawnCount' = spawnCount
    ]_vars

\* C2 witness: a process was spawned for the first invocation and the second,
\* whose executable is blocked, was refused without a spawn.
C2_Witness ==
  /\ response.id = 2
  /\ response.tool = "execute_command"
  /\ response.error = McpError("InvalidRequest", "blocked_command")
  /\ response.request.command.executable = "FORMAT.EXE"
  /\ calls[1].spawns = 1
  /\ calls[2].spawns = 0
  /\ spawnCount = 1

\* The checks of validateCommand in their order, and the first one a
\* command fails (0 when it fails none).
CheckOrder == <<"operator", "blocked_command", "blocked_argument", "length">>
FailsCheck(cfg, shell, command, check) ==
  CASE check = "operator"         -> OperatorViolation(cfg, shell, command)
    [] check = "blocked_command"  -> ExecutableViolation(command)
    [] check = "blocked_argument" -> ArgumentViolation(command)
    [] check = "length"           -> LengthViolation(command)
FirstFailing(cfg, shell, command) ==
  LET failing == {i \in 1..Len(CheckOrder) :
                    FailsCheck(cfg, shell, command, CheckOrder[i])}
  IN IF failing = {} THEN 0
     ELSE CHOOSE i \in failing : \A j \in failing : i <= j

\* C3: validateCommand reports the earliest failing check in the order
\* operator (only with injection protection), blocked executable, blocked
\* argument, length; a command failing none of them gets no validation error.
C3_FirstFailingCheckWins ==
  [][ ( Invoked("execute_command") /\ InvokedShell \in EnabledShells )
      => LET first == FirstFailing(config, InvokedShell, InvokedCommand)
         IN IF first = 0
            THEN \/ response'.id # nextId
                 \/ response'.error.reason \notin
                      {CheckOrder[i] : i \in 1..Len(CheckOrder)}
            ELSE /\ response'.id = nextId
                 /\ response'.error = McpError("InvalidRequest", CheckOrder[first])
    ]_vars

\* C3 witness: with injection protection disabled a command that carries an
\* operator, a blocked argument and too many characters is refused for its
\* blocked argument.
C3_Witness ==
  /\ ~config.enableInjectionProtection
  /\ response.tool = "execute_command"
  /\ response.request.command.ops # {}
  /\ response.request.command.executable = "dir"
  /\ response.request.command.len > MaxCommandLength
  /\ response.error = McpError("InvalidRequest", "blocked_argument")

\* A resolved directory is absolute and holds no parent segment.
IsResolved(path) ==
  /\ path # <<>>
  /\ path[1] = "/"
  /\ \A i \in 1..Len(path) : path[i] # ".."

\* C4: with the working-directory restriction enabled, execute_command
\* spawns only in a resolved directory (the current directory when none is
\* given) that starts with an allowed path; a call that passes validation
\* and names another directory is answered with invalid-request, without a
\* spawn and without a history entry.
C4_SpawnOnlyInAllowedDirectory ==
  [][ ( Invoked("execute_command") /\ config.restrictWorkingDirectory )
      => /\ calls'[nextId].spawns = 1 =>
              /\ lastSpawn'.id = nextId
              /\ IsResolved(lastSpawn'.cwd)
              /\ lastSpawn'.dir = <<>> => lastSpawn'.cwd = Cwd
              /\ HasAllowedPrefix(lastSpawn'.cwd)
         /\ ( /\ response'.id = nextId
              /\ response'.request.shell \in EnabledShells
              /\ ~CommandViolation(config, response'.request.shell,
                                   response'.request.command) )
            => /\ response'.error = McpError("InvalidRequest", "working_directory")
               /\ ~HasAllowedPrefix(ResolveWorkingDir(response'.request.workingDir))
               /\ NoSideEffects
    ]_vars

\* C4 witness: a directory that leaves the allowed path through a parent
\* segment was refused while an earlier invocation's process runs.
C4_Witness ==
  /\ config.restrictWorkingDirectory
  /\ response.id = 2
  /\ response.error = McpError("InvalidRequest", "working_directory")
  /\ response.request.workingDir = <<"/", "a", "/", "..", "/", "s">>
  /\ calls[1].spawns = 1
  /\ lastSpawn.id = 1
  /\ spawnCount = 1

\* C5: execute_command spawns only for an enabled shell profile; a call
\* naming a disabled or unknown shell is refused before validation (whatever
\* its command), without a spawn and without a history entry.
C5_SpawnOnlyForEnabledShell ==
  [][ Invoked("execute_command")
      => /\ calls'[nextId].spawns = 1 =>
              /\ lastSpawn'.id = nextId
              /\ lastSpawn'.shell \in DOMAIN Shells
              /\ Shells[lastSpawn'.shell].enabled
         /\ ( /\ response'.id = nextId
              /\ \/ response'.request.shell \notin DOMAIN Shells
                 \/ ~Shells[response'.request.shell].enabled )
            => /\ response'.error = McpError("InvalidParams", "shell")
               /\ calls'[nextId].spawns = 0
               /\ NoSideEffects
    ]_vars

\* C5 witness: a call naming the disabled shell with a blocked executable was
\* refused for its shell, after an earlier invocation recorded its result.
C5_Witness ==
  /\ response.id = 2
  /\ response.request.shell = "powershell"
  /\ response.request.command.executable = "FORMAT.EXE"
  /\ response.error = McpError("InvalidParams", "shell")
  /\ calls[2].spawns = 0
  /\ config.logCommands
  /\ Len(commandHistory) = 1


\* C6 (as claimed): with logging enabled the history never holds more than
\* maxHistorySize entries.
C6_HistoryWithinCap ==
  config.logCommands => Len(commandHistory) <= config.maxHistorySize

\* No invocation is still waiting for a process or a session.
Quiescent ==
  \A id \in CallIds : calls[id].st \in {"none", "done", "closed", "finished"}

\* The executions that ended: a process that closed, a remote command that
\* returned or failed.
Executed ==
  {id \in CallIds : /\ calls[id].tool \in {"execute_command", "ssh_execute"}
                    /\ calls[id].st \in {"closed", "finished"}}

\* C7 (as claimed): with logging enabled, after more executions than
\* maxHistorySize, all of them ended, the history holds exactly
\* maxHistorySize entries: those recorded last, in recording order.
C7_HistoryHoldsLastRecorded ==
  ( config.logCommands /\ Quiescent /\ Cardinality(Executed) > config.maxHistorySize )
  => /\ Len(commandHistory) = config.maxHistorySize
     /\ \A i \in 1..Len(commandHistory) :
          commandHistory[i].seq = recorded - config.maxHistorySize + i

\* a holds the leading characters of b.
IsFrontOf(a, b) ==
  /\ Len(a) <= Len(b)
  /\ \A i \in 1..Len(a) :
       /\ a[i].id = b[i].id
       /\ IF i < Len(a) THEN a[i].len = b[i].len ELSE a[i].len <= b[i].len
Min(a, b) == IF a <= b THEN a ELSE b
Max(a, b) == IF a >= b THEN a ELSE b

\* view is the last k entries of h, oldest first, each with the first
\* PreviewLen characters of its output.
IsPreviewOfLast(view, h, k) ==
  /\ Len(view) = Min(k, Len(h))
  /\ \A i \in 1..Len(view) :
       LET e == h[Len(h) - Len(view) + i]
       IN /\ view[i].command = e.command
          /\ view[i].exitCode = e.exitCode
          /\ view[i].connectionId = e.connectionId
          /\ view[i].seq = e.seq
          /\ IsFrontOf(view[i].output, e.output)
          /\ TextLen(view[i].output) = Min(TextLen(e.output), PreviewLen)

TimeoutRejection == Rejected(McpError("InternalError", "timeout"), TimeoutText)

\* C9: the first resolution of an invocation wins: a settled result never
\* changes, and the timer firing on an unsettled invocation settles it with
\* the timeout internal-error, which a later close event leaves in place.
C9_FirstResolutionWins ==
  [][ \A id \in CallIds :
        /\ calls[id].result.state # "pending" => calls'[id].result = calls[id].result
        /\ ( /\ calls[id].timer = "armed"
             /\ calls'[id].timer = "fired"
             /\ calls[id].result.state = "pending" )
           => calls'[id].result = TimeoutRejection
        /\ ( /\ calls[id].timer = "fired"
             /\ calls[id].result = TimeoutRejection
             /\ calls'[id].st = "closed" )
           => calls'[id].result = TimeoutRejection
    ]_vars

\* C9 witness: the timer fired, the close event of the killed process came
\* afterwards, and the result is the timeout error.
C9_Witness ==
  /\ calls[1].timer = "fired"
  /\ calls[1].killed
  /\ ~calls[1].errored
  /\ calls[1].st = "closed"
  /\ calls[1].result = TimeoutRejection

\* C10 (as claimed): close and timeout exclude each other: the close event
\* that follows the timeout changes neither the result nor the history, and
\* no timeout follows a close.
C10_CloseAndTimeoutExclusive ==
  [][ \A id \in CallIds :
        /\ ( calls[id].timer = "fired" /\ calls[id].st = "running"
             /\ calls'[id].st = "closed" )
           => /\ calls'[id].result = calls[id].result
              /\ commandHistory' = commandHistory
        /\ calls[id].st = "closed" => calls'[id].timer = calls[id].timer
    ]_vars


ClosedBeforeTimeout(id) ==
  calls[id].st = "closed" /\ calls[id].timer # "fired"

HasTimeoutEntry(h) == \E i \in DOMAIN h : h[i].output = TimeoutText

\* C12: the close event cancels the timer: once the process has closed before
\* the timer fired, no step fires the timer, kills the process, turns the
\* result into the timeout error or adds a timeout entry to the history.
C12_CloseCancelsTimer ==
  [][ \A id \in CallIds :
        ClosedBeforeTimeout(id)
          => /\ calls'[id].timer # "fired"
             /\ calls'[id].timer # "armed"
             /\ ~calls'[id].killed
             /\ calls'[id].result # TimeoutRejection
             /\ HasTimeoutEntry(commandHistory') => HasTimeoutEntry(commandHistory)
    ]_vars

\* C12 witness: a process that closed on its own, with its timer cleared, its
\* result resolved and its entry in the history.
C12_Witness ==
  /\ config.logCommands
  /\ calls[1].st = "closed"
  /\ calls[1].timer = "cleared"
  /\ ~calls[1].killed
  /\ calls[1].result.state = "resolved"
  /\ Len(commandHistory) = 1
  /\ ~HasTimeoutEntry(commandHistory)

\* C13 (as claimed): the error event of the process finalizes the invocation
\* with an internal-error result, and nothing happens for the invocation
\* afterwards: no kill, no timer firing, no change of the result and no
\* further history entry.
C13_SpawnFailureIsFinal ==
  [][ \A id \in CallIds :
        /\ (~calls[id].errored /\ calls'[id].errored /\ calls[id].result = Pending)
             => /\ calls'[id].result.state = "rejected"
                /\ calls'[id].result.error.code = "InternalError"
                /\ calls'[id].result.text = ProcessErrorText
        /\ calls[id].errored
             => /\ calls'[id].killed = calls[id].killed
                /\ calls'[id].timer # "fired"
                /\ calls'[id].result = calls[id].result
                /\ recorded' = recorded
                /\ commandHistory' = commandHistory
    ]_vars

\* What an invocation captures of a stream when only that stream delivers
\* data: its handler run on the chunks, from the state after spawn.
RECURSIVE StdoutAlone(_, _, _)
StdoutAlone(chunks, id, cfg) ==
  IF chunks = <<>>
  THEN [c |-> NoCall, fs |-> [f \in CallIds |-> NoFile]]
  ELSE LET before == StdoutAlone(SubSeq(chunks, 1, Len(chunks) - 1), id, cfg)
           chunk == chunks[Len(chunks)]
       IN [c |-> StdoutCall(before.c, id, chunk, cfg),
           fs |-> StdoutFiles(before.fs, before.c, id, chunk, cfg)]

RECURSIVE StderrAlone(_)
StderrAlone(chunks) ==
  IF chunks = <<>> THEN NoCall
  ELSE StderrCall(StderrAlone(SubSeq(chunks, 1, Len(chunks) - 1)), chunks[Len(chunks)])

\* C14 (as claimed): the two streams are accumulated independently, each
\* against its own cap: what is captured of standard output (the text, the
\* spill file and its contents) is what the standard output chunks alone
\* would give, and what is captured of standard error is what the standard
\* error chunks alone would give.
C14_StreamsIndependent ==
  \A id \in CallIds :
    calls[id].tool = "execute_command" /\ calls[id].st = "running"
      => /\ calls[id].output = StdoutAlone(calls[id].stdoutSeen, id, config).c.output
         /\ calls[id].outputFilePath =
              StdoutAlone(calls[id].stdoutSeen, id, config).c.outputFilePath
         /\ files[id] = StdoutAlone(calls[id].stdoutSeen, id, config).fs[id]
         /\ calls[id].error = StderrAlone(calls[id].stderrSeen).error

\* The text mentions the literal (a one-piece text).
Mentions(text, literal) == \E i \in DOMAIN text : text[i] = literal[1]

Spilling(cfg) == cfg.enableOutputFiles /\ cfg.hasOutputDirectory

\* This step delivers the close event of invocation id.
Closes(id) == calls[id].st = "running" /\ calls'[id].st = "closed"

\* This step delivers a chunk of standard output to invocation id.
StdoutStep(id) == Len(calls'[id].stdoutSeen) = Len(calls[id].stdoutSeen) + 1
LastChunk(id) == calls'[id].stdoutSeen[Len(calls'[id].stdoutSeen)]

\* C15 (as claimed): with spilling enabled, when the process closes after
\* standard output chunks of more than maxOutputSize in total, the spill file
\* of the invocation exists and holds exactly the chunks in the order they
\* were received, and the result the close handler builds names the file.
C15_SpillFileHoldsAllOutput ==
  [][ \A id \in CallIds :
        ( /\ Spilling(config)
          /\ Closes(id)
          /\ TextLen(calls[id].stdoutSeen) > MaxOutputSize )
        => /\ files'[id].exists
           /\ files'[id].content = calls[id].stdoutSeen
           /\ calls[id].result = Pending
                => Mentions(calls'[id].result.text, PathText)
    ]_vars

\* C16 (as claimed): with spilling disabled, the standard output chunk that
\* would push the captured output past maxOutputSize appends the truncation
\* marker; the marker appears at most once; once it is there the captured
\* output never changes again; and no file is ever created.
C16_TruncatedOutputIsFrozen ==
  [][ \A id \in CallIds :
        ~config.enableOutputFiles
        => /\ ~files'[id].exists
           /\ Cardinality({i \in DOMAIN calls'[id].output :
                             calls'[id].output[i] = OutTruncText[1]}) <= 1
           /\ Mentions(calls[id].output, OutTruncText)
                => calls'[id].output = calls[id].output
           /\ ( /\ StdoutStep(id)
                /\ ~Mentions(calls[id].output, OutTruncText)
                /\ TextLen(calls[id].output) + LastChunk(id).len > MaxOutputSize )
                => calls'[id].output = calls[id].output \o OutTruncText
    ]_vars

\* The attempts in flight and the sessions of one connection identifier.
PendingOf(pool, connectionId) ==
  {a \in pool.pending : a.connectionId = connectionId}
SessionsOf(pool, connectionId) ==
  {h \in pool.sessions : h.connectionId = connectionId}
Waiting(connectionId) ==
  {id \in CallIds : calls[id].st = "connecting"
                     /\ calls[id].connectionId = connectionId}

\* C17: for every connection identifier the pool holds at most one session,
\* and never an attempt in flight besides it or besides another attempt; an
\* ssh_execute call that arrives while an attempt for its identifier is in
\* flight, or its session exists, starts no attempt; so all calls waiting for
\* an identifier wait for one and the same attempt.
C17_OneAttemptPerConnection ==
  [][ \A c \in ConnectionInputs :
        /\ Cardinality(PendingOf(sshPool', c)) + Cardinality(SessionsOf(sshPool', c)) <= 1
        /\ ( /\ Invoked("ssh_execute")
             /\ calls'[nextId].connectionId = c
             /\ HasPending(sshPool, c) \/ HasSession(sshPool, c) )
           => sshPool' = sshPool
        /\ Waiting(c)' # {} => Cardinality(PendingOf(sshPool', c)) = 1
    ]_vars

\* C17 witness: two ssh_execute calls wait for the same identifier, which had
\* no session, and one attempt is in flight.
C17_Witness ==
  /\ Cardinality(Waiting("pi")) = 2
  /\ Cardinality(sshPool.pending) = 1
  /\ sshPool.sessions = {}

\* C18: an ssh_execute call made while remote execution is disabled, or for
\* a connection identifier the configuration does not name, is answered with
\* an invalid-request error that names that cause, whatever the command (so
\* the command was not validated), and it requests no session and adds no
\* history entry.
C18_SshRefusedBeforeValidation ==
  [][ /\ ( /\ Answered("ssh_execute")
           /\ \/ ~config.sshEnabled
              \/ response'.request.connectionId \notin SshConnections )
         => /\ response'.error.code = "InvalidRequest"
            /\ response'.error.reason =
                 (IF ~config.sshEnabled THEN "ssh_disabled" ELSE "unknown_connection")
            /\ NoSideEffects
      /\ (Invoked("ssh_execute") /\ ~Answered("ssh_execute"))
         => /\ config.sshEnabled
            /\ calls'[nextId].connectionId \in SshConnections
    ]_vars

\* C18 witness: with remote execution enabled, a call naming an unconfigured
\* connection with a blocked executable was refused as invalid-request, after
\* an earlier call had opened a session and recorded its command.
C18_Witness ==
  /\ config.sshEnabled
  /\ config.logCommands
  /\ response.tool = "ssh_execute"
  /\ response.request.connectionId = "nope"
  /\ ExecutableViolation(response.request.command)
  /\ response.error = McpError("InvalidRequest", "unknown_connection")
  /\ sshPool.sessions # {}
  /\ Len(commandHistory) = 1

\* This step runs the catch block of ssh_execute for invocation id after
\* getConnection or executeCommand failed.
SshFails(id) ==
  /\ calls[id].tool = "ssh_execute"
  /\ calls[id].st \in {"executing", "failing"}
  /\ calls'[id].st = "finished"
  /\ calls'[id].result.state = "rejected"

\* C19: when obtaining the session or running the remote command fails, the
\* call ends with an internal-error whose message is the failure message
\* behind the prefix 'SSH error: '; with logging enabled exactly one entry is
\* appended to the history, holding the command, that same prefixed message,
\* exit code -1 and the connection identifier; with logging disabled the
\* history is unchanged. A call whose session could not be obtained can only
\* end this way.
C19_SshFailureRecordedAndRaised ==
  [][ \A id \in CallIds :
        /\ SshFails(id)
           => /\ calls'[id].result.error.code = "InternalError"
              /\ calls'[id].result.text = SshErrorPrefix \o RemoteFailureText
              /\ config.logCommands
                   => /\ Len(commandHistory') = Len(commandHistory) + 1
                      /\ SubSeq(commandHistory', 1, Len(commandHistory)) = commandHistory
                      /\ LET e == commandHistory'[Len(commandHistory')]
                         IN /\ e.output = calls'[id].result.text
                            /\ e.exitCode = -1
                            /\ e.connectionId = calls[id].connectionId
                            /\ e.command = calls[id].command
              /\ ~config.logCommands => commandHistory' = commandHistory
        /\ (calls[id].st = "failing" /\ calls'[id] # calls[id]) => SshFails(id)
    ]_vars

\* C19 witness: one call failed to obtain its session and another failed in
\* the remote command; both are rejected and both are in the history.
C19_Witness ==
  /\ config.logCommands
  /\ sshPool.sessions # {}
  /\ \E i, j \in CallIds :
       /\ i # j
       /\ calls[i].st = "finished" /\ calls[i].result.state = "rejected"
       /\ calls[j].st = "finished" /\ calls[j].result.state = "rejected"
  /\ Len(commandHistory) = 2
  /\ \A i \in 1..2 :
       /\ commandHistory[i].output = SshErrorPrefix \o RemoteFailureText
       /\ commandHistory[i].exitCode = -1
       /\ commandHistory[i].connectionId = "pi"

\* C20: with remote execution enabled, ssh_disconnect for an identifier that
\* has no session in the pool (never connected, not configured, or already
\* disconnected) answers with the confirmation text and changes nothing: no
\* session is created, the pool and the history are as before. The state
\* after it again has no session for the identifier, so a second call in a
\* row does the same.
C20_DisconnectWithoutSessionIsNoOp ==
  [][ ( /\ Answered("ssh_disconnect")
        /\ config.sshEnabled
        /\ ~HasSession(sshPool, response'.request.connectionId) )
      => /\ response'.error = NoError
         /\ response'.text = DisconnectedText
         /\ sshPool' = sshPool
         /\ ~HasSession(sshPool', response'.request.connectionId)
         /\ NoSideEffects
    ]_vars

\* C20 witness: ssh_disconnect was called twice in a row, the second time for
\* an identifier the configuration does not name; both calls ended, the
\* second with the confirmation, and the pool is empty.
C20_Witness ==
  /\ config.sshEnabled
  /\ calls[1].tool = "ssh_disconnect" /\ calls[1].st = "done"
  /\ calls[2].tool = "ssh_disconnect" /\ calls[2].st = "done"
  /\ response.id = 2
  /\ response.request.connectionId = "nope"
  /\ response.error = NoError
  /\ response.text = DisconnectedText
  /\ sshPool = NoPool
  /\ commandHistory = <<>>

\* The invocation has asked the pool for a session (and may have gone on to
\* run its command there).
RequestedSession(id) ==
  /\ calls[id].tool = "ssh_execute"
  /\ calls[id].st \in {"connecting", "executing", "failing", "finished"}

\* C21: ssh_execute validates the command before it asks the pool for a
\* session: a call whose command the policy rejects is answered at once,
\* leaves the pool as it was, and never waits for a session or runs remotely;
\* every invocation that did ask for a session carries a command that passes
\* every check.
C21_SshValidatesBeforeSession ==
  [][ /\ ( /\ Answered("ssh_execute")
           /\ CommandViolation(config, "cmd", response'.request.command) )
         => sshPool' = sshPool
      /\ (Invoked("ssh_execute") /\ ~Answered("ssh_execute"))
         => ~CommandViolation(config, "cmd", calls'[nextId].command)
      /\ \A id \in CallIds :
           RequestedSession(id)' => ~CommandViolation(config, "cmd", calls'[id].command)
    ]_vars

\* C21 witness: after one call opened a session for the connection, a second
\* call for the same connection with a rejected command was answered with an
\* error while the pool still holds that one session and nothing is in flight.
C21_Witness ==
  /\ config.sshEnabled
  /\ response.tool = "ssh_execute"
  /\ response.id = 2
  /\ response.request.connectionId = "pi"
  /\ CommandViolation(config, "cmd", response.request.command)
  /\ response.error # NoError
  /\ RequestedSession(1)
  /\ Cardinality(sshPool.sessions) = 1
  /\ sshPool.pending = {}

\* C22: with logging disabled the history stays empty whatever happens (a
\* close, a process error, a timeout, a remote result or failure), and
\* get_command_history answers with the disabled notice and no entries
\* whatever limit it is given, valid or not.
C22_NoHistoryWithoutLogging ==
  [][ ~config.logCommands
      => /\ commandHistory' = <<>>
         /\ Answered("get_command_history")
              => /\ response'.error = NoError
                 /\ response'.text = HistoryDisabledText
                 /\ response'.entries = <<>>
    ]_vars

\* C22 witness: with logging disabled, one local execution timed out, one
\* remote execution failed, and get_command_history called with limit 0
\* returned the notice; the history is empty.
C22_Witness ==
  /\ ~config.logCommands
  /\ \E id \in CallIds : calls[id].timer = "fired" /\ calls[id].st = "closed"
  /\ \E id \in CallIds :
       calls[id].tool = "ssh_execute" /\ calls[id].result.state = "rejected"
  /\ response.tool = "get_command_history"
  /\ response.request.limit = Limit(0)
  /\ response.text = HistoryDisabledText
  /\ commandHistory = <<>>

\* The number of characters of chunk data in a buffer: the notices and
\* markers the handlers write into it do not count.
RECURSIVE ChunkData(_)
ChunkData(t) ==
  IF t = <<>> THEN 0
  ELSE (IF Head(t) \in Chunks THEN Head(t).len ELSE 0) + ChunkData(Tail(t))

\* C23: during an execution the counter outputSize is at most maxOutputSize,
\* and so is the chunk data the output and error buffers hold together, for
\* every sequence and interleaving of chunks on the two streams.
C23_BufferedDataWithinCap ==
  \A id \in CallIds :
    calls[id].tool = "execute_command"
      => /\ calls[id].outputSize <= MaxOutputSize
         /\ ChunkData(calls[id].output) + ChunkData(calls[id].error) <= MaxOutputSize
         /\ ~calls[id].truncated
              => /\ calls[id].outputSize = TextLen(calls[id].output) + TextLen(calls[id].error)
                 /\ calls[id].output = calls[id].stdoutSeen
                 /\ calls[id].error = calls[id].stderrSeen

\* C23 witness: both buffers hold chunk data, the counter has reached the cap
\* exactly, and a later chunk did not fit.
C23_Witness ==
  /\ calls[1].outputSize = MaxOutputSize
  /\ ChunkData(calls[1].output) > 0
  /\ ChunkData(calls[1].error) > 0
  /\ calls[1].truncated

\* C24: the interrupt starts the close of every pooled session (none stays
\* in the pool; each is closed or closing) and the exit follows as the very
\* next step, whether or not a close has completed; so once interrupted the
\* server always eventually exits.
C24_InterruptAlwaysExits ==
  /\ [][ /\ (proc = "running" /\ proc' # "running")
             => /\ proc' = "interrupted"
                /\ sshPool'.sessions = {}
                /\ sshPool'.closing \subseteq sshPool.sessions
                /\ sshPool'.pending = sshPool.pending
         /\ proc = "interrupted" => (proc' = "exited" /\ sshPool' = sshPool)
       ]_vars
  /\ (proc = "interrupted") ~> (proc = "exited")

\* C24 witness: the server exited while the close of a session it had
\* started was still not complete.
C24_Witness ==
  /\ proc = "exited"
  /\ sshPool.sessions = {}
  /\ sshPool.closing # {}

====
